---- MODULE Spec2Model ----
(***************************************************************************)
(* Model of the response-normalization path of the eyebag analyzers:       *)
(* GeminiAnalyzer.analyzeEyebags (src/src/lib/gemini.ts) and the two       *)
(* OpenAIAnalyzer.analyzeEyebags generations (src/unnamed/part_001).       *)
(*                                                                         *)
(* A text is a sequence of lexemes (tokens).  JavaScript values are        *)
(* tagged records of one fixed shape per nesting level, so that any two    *)
(* values of a level can be compared.                                      *)
(***************************************************************************)
EXTENDS Integers, Sequences, FiniteSets, TLC

(***************************************************************************)
(* Bounds of the model.                                                    *)
(***************************************************************************)
\* longest vendor answer text, in lexemes
MaxLen == 3
\* longest recommendations / observations array the vendor sends
MaxRecs == 8
\* longest prose put before or after an embedded object
MaxProse == 2

(***************************************************************************)
(* Program constants.                                                      *)
(***************************************************************************)
ScoreMin == 0
ScoreMax == 100
DefaultScore == 50
MaxRecommendations == 6

(***************************************************************************)
(* JavaScript values.                                                      *)
(*   Elem     : an element of an array held in a field                     *)
(*   FieldVal : the value of a property of the parsed object               *)
(*   Value    : the value JSON.parse returns for the whole text            *)
(***************************************************************************)
EStr(s) == [t |-> "str", n |-> 0, s |-> s]
ENum(n) == [t |-> "num", n |-> n, s |-> ""]
ENull == [t |-> "null", n |-> 0, s |-> ""]
EBool(b) == [t |-> "bool", n |-> IF b THEN 1 ELSE 0, s |-> ""]
EObj == [t |-> "obj", n |-> 0, s |-> ""]

Undef == [t |-> "undef", n |-> 0, s |-> "", a |-> <<>>]
Null == [t |-> "null", n |-> 0, s |-> "", a |-> <<>>]
Num(n) == [t |-> "num", n |-> n, s |-> "", a |-> <<>>]
NaN == [t |-> "nan", n |-> 0, s |-> "", a |-> <<>>]
Str(s) == [t |-> "str", n |-> 0, s |-> s, a |-> <<>>]
Bool(b) == [t |-> "bool", n |-> IF b THEN 1 ELSE 0, s |-> "", a |-> <<>>]
Obj == [t |-> "obj", n |-> 0, s |-> "", a |-> <<>>]
Arr(a) == [t |-> "arr", n |-> 0, s |-> "", a |-> a]

\* the properties analyzeEyebags reads from the parsed object
Keys ==
  {"darkness", "puffiness", "overallScore", "severity", "confidenceScore",
   "lightingQuality", "observations", "recommendations"}

\* an object none of whose properties is present
EmptyObject == [k \in Keys |-> Undef]

VUndef == [t |-> "undef", n |-> 0, s |-> "", o |-> EmptyObject]
VNull == [t |-> "null", n |-> 0, s |-> "", o |-> EmptyObject]
VNum(n) == [t |-> "num", n |-> n, s |-> "", o |-> EmptyObject]
VStr(s) == [t |-> "str", n |-> 0, s |-> s, o |-> EmptyObject]
VBool(b) == [t |-> "bool", n |-> IF b THEN 1 ELSE 0, s |-> "", o |-> EmptyObject]
VArr == [t |-> "arr", n |-> 0, s |-> "", o |-> EmptyObject]
VObj(o) == [t |-> "obj", n |-> 0, s |-> "", o |-> o]

\* JavaScript truthiness: 0, NaN, "", false, null and undefined are falsy
Truthy(v) ==
  CASE v.t = "num" -> v.n # 0
    [] v.t = "str" -> v.s # ""
    [] v.t = "bool" -> v.n = 1
    [] v.t \in {"obj", "arr"} -> TRUE
    [] OTHER -> FALSE

\* the strings of the model whose text is a decimal numeral, with their value
NumericStrings == {"42", "-7", "250"}
StringToNumber(s) ==
  CASE s = "" -> Num(0)
    [] s = "42" -> Num(42)
    [] s = "-7" -> Num(0 - 7)
    [] s = "250" -> Num(250)
    [] OTHER -> NaN

\* Array.prototype.join of a one-element array, then ToNumber of the string
ElemToNumber(e) ==
  CASE e.t = "num" -> Num(e.n)
    [] e.t = "str" -> StringToNumber(e.s)
    [] e.t = "null" -> Num(0)
    [] OTHER -> NaN

\* ToNumber, as Math.max and Math.min apply it to their arguments
ToNumber(v) ==
  CASE v.t = "num" -> v
    [] v.t = "nan" -> NaN
    [] v.t = "str" -> StringToNumber(v.s)
    [] v.t = "bool" -> Num(v.n)
    [] v.t = "null" -> Num(0)
    [] v.t = "arr" ->
         IF Len(v.a) = 0 THEN Num(0)
         ELSE IF Len(v.a) = 1 THEN ElemToNumber(v.a[1]) ELSE NaN
    [] OTHER -> NaN

MathMax(a, v) ==
  LET x == ToNumber(v) IN
  IF x.t = "nan" THEN NaN ELSE IF x.n > a THEN x ELSE Num(a)

MathMin(a, v) ==
  LET x == ToNumber(v) IN
  IF x.t = "nan" THEN NaN ELSE IF x.n < a THEN x ELSE Num(a)

\* v || d
OrElse(v, d) == IF Truthy(v) THEN v ELSE d

\* Clamp without the upper bound
ClampNoCeiling(x) == MathMax(ScoreMin, OrElse(x, Num(0)))

\* Math.min(100, Math.max(0, x || 0))
Clamp(x) == MathMin(ScoreMax, MathMax(ScoreMin, OrElse(x, Num(0))))

\* property access on a non-null value: a primitive or an array has none of Keys
Get(v, k) == IF v.t = "obj" THEN v.o[k] ELSE Undef

\* slice that keeps one element too many
SliceOneMore(a, end) == SubSeq(a, 1, IF Len(a) < end + 1 THEN Len(a) ELSE end + 1)

\* Array.prototype.slice(0, end)
Slice(a, end) == SubSeq(a, 1, IF Len(a) < end THEN Len(a) ELSE end)

(***************************************************************************)
(* The analyzer variants and their severity scales.                        *)
(***************************************************************************)
Variants == {"gemini", "openai4", "openai10"}

Severity4 == {"minimal", "mild", "moderate", "severe"}
Severity10 ==
  {"none", "very_minimal", "minimal", "very_mild", "mild", "moderate",
   "moderately_severe", "severe", "very_severe", "extreme"}
\* every analyzer checking against the 10-level scale
SeveritySetShared(variant) == Severity10

\* the list of one copy of the validation having lost a value
SeveritySetDrifted(variant) ==
  IF variant = "openai10" THEN Severity10
  ELSE IF variant = "gemini" THEN Severity4 \ {"severe"} ELSE Severity4

SeveritySet(variant) == IF variant = "openai10" THEN Severity10 ELSE Severity4

\* Array.prototype.includes: strict equality with one of the strings
Includes(set, v) == v.t = "str" /\ v.s \in set

\* the fallback confused with an empty list
FallbackRecommendationsEmpty == <<>>

FallbackRecommendations ==
  <<EStr("Consider consulting with a healthcare professional for personalized advice")>>

DefaultAnalysis ==
  VObj([EmptyObject EXCEPT
    !["darkness"] = Num(DefaultScore),
    !["puffiness"] = Num(DefaultScore),
    !["overallScore"] = Num(DefaultScore),
    !["severity"] = Str("moderate"),
    !["recommendations"] =
       Arr(<<EStr("Get adequate sleep (7-9 hours per night)"),
             EStr("Stay hydrated by drinking plenty of water"),
             EStr("Use a cold compress to reduce puffiness")>>)])

\* the object literal returned by analyzeEyebags; in the 4-level analyzers
\* the three optional properties are not part of the literal (Undef here)
Sanitize(variant, analysis) ==
  [darkness |-> Clamp(Get(analysis, "darkness")),
   puffiness |-> Clamp(Get(analysis, "puffiness")),
   overallScore |-> Clamp(Get(analysis, "overallScore")),
   severity |->
     IF Includes(SeveritySet(variant), Get(analysis, "severity"))
     THEN Get(analysis, "severity") ELSE Str("moderate"),
   confidenceScore |->
     IF variant = "openai10" /\ Truthy(Get(analysis, "confidenceScore"))
     THEN MathMin(ScoreMax, MathMax(ScoreMin, Get(analysis, "confidenceScore")))
     ELSE Undef,
   lightingQuality |->
     IF variant = "openai10"
     THEN OrElse(Get(analysis, "lightingQuality"), Undef) ELSE Undef,
   observations |->
     IF variant = "openai10" /\ Get(analysis, "observations").t = "arr"
     THEN Get(analysis, "observations") ELSE Undef,
   recommendations |->
     IF Get(analysis, "recommendations").t = "arr"
     THEN Slice(Get(analysis, "recommendations").a, MaxRecommendations)
     ELSE FallbackRecommendations]

(***************************************************************************)
(* Texts.  A text is a sequence of lexemes; kind k is one of               *)
(*   "fence"  three backquotes            "json"  the fence tag, any case  *)
(*   "ws"     white space or a newline    "x"     a word of prose          *)
(*   "{" "}" "[" "]"                      the JSON punctuation             *)
(*   "null" "false" "true" "0" "7"        JSON literals: null, false, true,*)
(*   "empty" "s"                          0, 7, "" and "s"                 *)
(*   "body"   the member list of an object, standing for the object b      *)
(* A member list holds no brace, no backquote and at least one member.     *)
(***************************************************************************)
Tok(k) == [k |-> k, b |-> EmptyObject]
BodyTok(o) == [k |-> "body", b |-> o]

IsWs(tok) == tok.k = "ws"

\* number of white-space lexemes at the start of text
RECURSIVE LeadingWs(_)
LeadingWs(text) ==
  IF text # <<>> /\ IsWs(Head(text)) THEN 1 + LeadingWs(Tail(text)) ELSE 0

\* number of white-space lexemes at the end of text
RECURSIVE TrailingWs(_)
TrailingWs(text) ==
  IF text # <<>> /\ IsWs(text[Len(text)])
  THEN 1 + TrailingWs(SubSeq(text, 1, Len(text) - 1)) ELSE 0

DropFirst(text, n) == SubSeq(text, n + 1, Len(text))
DropLast(text, n) == SubSeq(text, 1, Len(text) - n)

\* String.prototype.trim
Trim(text) ==
  LET t == DropFirst(text, LeadingWs(text)) IN DropLast(t, TrailingWs(t))

\* .replace(/^\s*```(?:json)?\s*/i, '')
StripLeadingFence(text) ==
  LET i == LeadingWs(text) IN
  IF Len(text) > i /\ text[i + 1].k = "fence"
  THEN LET j == IF Len(text) > i + 1 /\ text[i + 2].k = "json"
                THEN i + 2 ELSE i + 1
           rest == DropFirst(text, j)
       IN DropFirst(rest, LeadingWs(rest))
  ELSE text

\* .replace(/```\s*$/i, '')
StripTrailingFence(text) ==
  LET w == TrailingWs(text) IN
  IF Len(text) > w /\ text[Len(text) - w].k = "fence"
  THEN DropLast(text, w + 1)
  ELSE text

\* the text with its code fence markers removed, trimmed
Stripped(text) == Trim(StripTrailingFence(StripLeadingFence(text)))

\* analysisText.match(/\{[\s\S]*\}/): from the first "{" to the last "}"
HasBraceBlock(text) ==
  \E i, j \in 1..Len(text) : i < j /\ text[i].k = "{" /\ text[j].k = "}"

\* a pattern that lacks the closing brace: from the first "{" to the end
BraceBlockToEnd(text) ==
  LET i == CHOOSE a \in 1..Len(text) :
             text[a].k = "{" /\ \A c \in 1..(a - 1) : text[c].k # "{"
  IN SubSeq(text, i, Len(text))

BraceBlock(text) ==
  LET i == CHOOSE a \in 1..Len(text) :
             text[a].k = "{" /\ \A c \in 1..(a - 1) : text[c].k # "{"
      j == CHOOSE a \in 1..Len(text) :
             text[a].k = "}" /\ \A c \in (a + 1)..Len(text) : text[c].k # "}"
  IN SubSeq(text, i, j)

ParseFailure == [ok |-> FALSE, v |-> VUndef]
Parsed(v) == [ok |-> TRUE, v |-> v]

\* the JSON value of a sequence of lexemes holding no white space
RECURSIVE ParseValue(_)
ParseValue(ts) ==
  LET n == Len(ts) IN
  IF n = 0 THEN ParseFailure
  ELSE IF n = 1 THEN
    CASE ts[1].k = "null" -> Parsed(VNull)
      [] ts[1].k = "false" -> Parsed(VBool(FALSE))
      [] ts[1].k = "true" -> Parsed(VBool(TRUE))
      [] ts[1].k = "0" -> Parsed(VNum(0))
      [] ts[1].k = "7" -> Parsed(VNum(7))
      [] ts[1].k = "empty" -> Parsed(VStr(""))
      [] ts[1].k = "s" -> Parsed(VStr("s"))
      [] OTHER -> ParseFailure
  ELSE IF ts[1].k = "{" /\ ts[n].k = "}" THEN
    IF n = 2 THEN Parsed(VObj(EmptyObject))
    ELSE IF n = 3 /\ ts[2].k = "body" THEN Parsed(VObj(ts[2].b))
    ELSE ParseFailure
  ELSE IF ts[1].k = "[" /\ ts[n].k = "]" THEN
    IF n = 2 \/ ParseValue(SubSeq(ts, 2, n - 1)).ok
    THEN Parsed(VArr) ELSE ParseFailure
  ELSE ParseFailure

\* JSON.parse of a string: white space between lexemes is insignificant
JSONParse(text) == ParseValue(SelectSeq(text, LAMBDA tok : ~IsWs(tok)))

(***************************************************************************)
(* analyzeEyebags, from the answer text to the settled promise.            *)
(***************************************************************************)
NoResult == Sanitize("gemini", VUndef)
Resolved(r) == [kind |-> "result", result |-> r, error |-> ""]
Rejected(e) == [kind |-> "error", result |-> NoResult, error |-> e]
NoOutcome == [kind |-> "none", result |-> NoResult, error |-> ""]

\* the parse chain without the default substitution
ParseAnalysisNoDefault(text) ==
  LET direct == JSONParse(text) IN
  IF direct.ok THEN direct.v
  ELSE IF Stripped(text) # <<>> /\ JSONParse(Stripped(text)).ok
  THEN JSONParse(Stripped(text)).v
  ELSE IF HasBraceBlock(text) /\ JSONParse(BraceBlock(text)).ok
  THEN JSONParse(BraceBlock(text)).v
  ELSE VNull

\* the parse chain testing for null where the code tests for a falsy value
ParseAnalysisNullTest(text) ==
  LET direct == JSONParse(text) IN
  IF direct.ok THEN direct.v
  ELSE
    LET stripped == Stripped(text)
        a1 == IF stripped # <<>> /\ JSONParse(stripped).ok
              THEN JSONParse(stripped).v ELSE VNull
        a2 == IF a1.t = "null" /\ HasBraceBlock(text)
                 /\ JSONParse(BraceBlock(text)).ok
              THEN JSONParse(BraceBlock(text)).v ELSE a1
    IN IF a2.t = "null" THEN DefaultAnalysis ELSE a2

\* the value of `analysis` when the validation starts: the parse of the
\* text, of the fence-stripped text, of the brace block, or the default
ParseAnalysis(text) ==
  LET direct == JSONParse(text) IN
  IF direct.ok THEN direct.v
  ELSE
    LET stripped == Stripped(text)
        a1 == IF stripped # <<>> /\ JSONParse(stripped).ok
              THEN JSONParse(stripped).v ELSE VNull
        a2 == IF ~Truthy(a1) /\ HasBraceBlock(text)
                 /\ JSONParse(BraceBlock(text)).ok
              THEN JSONParse(BraceBlock(text)).v ELSE a1
    IN IF ~Truthy(a2) THEN DefaultAnalysis ELSE a2

\* reading a property of null throws a TypeError, which the outer catch
\* logs and rethrows
NormalizeText(variant, text) ==
  LET analysis == ParseAnalysis(text) IN
  IF analysis.t \in {"null", "undef"}
  THEN Rejected("TypeError")
  ELSE Resolved(Sanitize(variant, analysis))

\* the nested fields of the vendor envelope on the way to the answer text
EnvelopePath(variant) ==
  IF variant = "gemini"
  THEN <<"candidates", "candidates0", "content", "parts", "parts0", "text">>
  ELSE <<"choices", "choices0", "message", "content">>

\* the fields whose absence the envelope check detects
CheckedFields(variant) ==
  IF variant = "gemini"
  THEN {"candidates", "candidates0", "content"}
  ELSE {"choices", "choices0", "message"}

NoResponse == [status |-> "none", missing |-> "none", text |-> <<>>]

\* the part of analyzeEyebags that follows a successful HTTP status
HandleBody(variant, resp) ==
  IF resp.missing \in CheckedFields(variant)
  THEN Rejected("Invalid response")
  ELSE IF resp.missing = "none"
  THEN NormalizeText(variant, resp.text)
  ELSE IF variant = "gemini"
  THEN NormalizeText(variant, <<>>)
  ELSE Rejected("TypeError")

(***************************************************************************)
(* The inputs: what the vendor may answer.                                 *)
(***************************************************************************)
NumProbes == {0 - 500, 0 - 30, 0 - 10, 0 - 1, 0, 1, 50, 99, 100, 101, 110, 500}

StringProbes ==
  Severity10 \cup NumericStrings
    \cup {"poor", "fair", "good", "Moderate", "abc", ""}

RecNames ==
  <<"rec1", "rec2", "rec3", "rec4", "rec5", "rec6", "rec7", "rec8", "rec9",
    "rec10", "rec11", "rec12">>

\* a well-typed array of n distinct strings
RecList(n) == [i \in 1..n |-> EStr(RecNames[i])]

\* arrays some of whose elements are not strings
MixedLists ==
  {<<ENum(5)>>, <<ENull>>, <<EBool(TRUE)>>, <<EStr("42")>>,
   <<EStr("rec1"), ENull>>, <<EObj, EStr("rec2")>>,
   RecList(MaxRecommendations) \o <<ENum(7)>>}

FieldProbes ==
  {Num(n) : n \in NumProbes} \cup {Str(s) : s \in StringProbes}
    \cup {Undef, Null, Bool(TRUE), Bool(FALSE), Obj}
    \cup {Arr(RecList(n)) : n \in 0..MaxRecs} \cup {Arr(a) : a \in MixedLists}

\* the object the prompts ask for
WellFormed ==
  [EmptyObject EXCEPT
    !["darkness"] = Num(10),
    !["puffiness"] = Num(20),
    !["overallScore"] = Num(30),
    !["severity"] = Str("mild"),
    !["confidenceScore"] = Num(80),
    !["lightingQuality"] = Str("good"),
    !["observations"] = Arr(RecList(2)),
    !["recommendations"] = Arr(RecList(3))]

\* objects that differ from the empty or the well-formed one in one member
Bodies ==
  {[base EXCEPT ![k] = v] :
     base \in {EmptyObject, WellFormed}, k \in Keys, v \in FieldProbes}
    \ {EmptyObject}

ObjectText(o) == <<Tok("{"), BodyTok(o), Tok("}")>>
ObjectTexts == {ObjectText(o) : o \in Bodies}

Alphabet ==
  {Tok(k) : k \in {"fence", "json", "ws", "x", "{", "}", "[", "]", "null",
                   "false", "true", "0", "7", "empty", "s"}}
    \cup {BodyTok(WellFormed)}

SeqsUpTo(S, n) == UNION {[1..k -> S] : k \in 0..n}

\* every text of at most MaxLen lexemes
ShortTexts == SeqsUpTo(Alphabet, MaxLen)

\* ```json\nJ\n``` and ```\nJ\n```
FenceWrap(tagged, J) ==
  <<Tok("fence")>> \o (IF tagged THEN <<Tok("json")>> ELSE <<>>)
    \o <<Tok("ws")>> \o J \o <<Tok("ws"), Tok("fence")>>

JsonTexts == {t \in ShortTexts : JSONParse(t).ok} \cup {ObjectText(WellFormed)}
FencedTexts == {FenceWrap(tg, J) : tg \in BOOLEAN, J \in JsonTexts}

ProseAlphabet == {Tok(k) : k \in {"x", "{", "}", "[", "]"}}
ProseTexts == SeqsUpTo(ProseAlphabet, MaxProse)
EmbeddedObjects == {<<Tok("{"), Tok("}")>>, ObjectText(WellFormed)}
EmbeddedTexts ==
  {p1 \o obj \o p2 : p1 \in ProseTexts, obj \in EmbeddedObjects, p2 \in ProseTexts}

ContentTexts == ShortTexts \cup ObjectTexts \cup FencedTexts \cup EmbeddedTexts

(***************************************************************************)
(* One call of analyzeEyebags at a time, as a state machine.               *)
(***************************************************************************)
VARIABLES
  pc,        \* "idle", "fetch", "response", "resolved" or "rejected"
  variant,   \* the analyzer class the call runs in
  requests,  \* number of fetch calls the current call has issued
  response,  \* what fetch settled with
  outcome,   \* what the promise of analyzeEyebags settled with
  apiKey,         \* Index state: the key typed into the setup form
  isAnalyzing,    \* Index state: the busy flag
  analysis,       \* Index state: the result held, tagged with its image
  capturedImage,  \* Index state: the image last handed to handleCapture
  step,           \* Index state: "setup", "camera" or "results"
  isActive,       \* CameraInterface state: the camera preview is running
  reads,          \* images a FileReader is still reading
  calls,          \* handleCapture invocations suspended in analyzeEyebags
  toast           \* title of the last toast shown by Index

analyzerVars == <<pc, variant, requests, response, outcome>>

pageVars ==
  <<apiKey, isAnalyzing, analysis, capturedImage, step, isActive, reads,
    calls, toast>>

vars == <<analyzerVars, pageVars>>

\* useState(null): no analysis held
NoAnalysis == [present |-> FALSE, of |-> "", result |-> NoResult]

\* the state of Index and CameraInterface after the first render
PageInit ==
  /\ apiKey = <<>>
  /\ isAnalyzing = FALSE
  /\ analysis = NoAnalysis
  /\ capturedImage = ""
  /\ step = "setup"
  /\ isActive = FALSE
  /\ reads = {}
  /\ calls = {}
  /\ toast = "none"

Init ==
  /\ pc = "idle"
  /\ variant = "gemini"
  /\ requests = 0
  /\ response = NoResponse
  /\ outcome = NoOutcome
  /\ PageInit

\* the call up to `await fetch(...)`
analyzeEyebags(v) ==
  /\ pc = "idle"
  /\ pc' = "fetch"
  /\ variant' = v
  /\ requests' = 1
  /\ response' = NoResponse
  /\ outcome' = NoOutcome
  /\ UNCHANGED pageVars

\* fetch rejects (network failure): the outer catch logs and rethrows
FetchRejects ==
  /\ pc = "fetch"
  /\ pc' = "rejected"
  /\ response' = [NoResponse EXCEPT !.status = "network_error"]
  /\ outcome' = Rejected("network")
  /\ UNCHANGED <<variant, requests>>
  /\ UNCHANGED pageVars

\* what the vendor may send to the given analyzer: an error status, a
\* success with an envelope lacking one nested field, or a success with a
\* well-formed envelope around some answer text
VendorResponses(v) ==
  {[status |-> "http_error", missing |-> "none", text |-> <<>>]}
    \cup {[status |-> "ok", missing |-> EnvelopePath(v)[i], text |-> <<>>] :
            i \in 1..Len(EnvelopePath(v))}
    \cup {[status |-> "ok", missing |-> "none", text |-> t] : t \in ContentTexts}

\* fetch resolves with a response of some status and body
FetchResolves ==
  /\ pc = "fetch"
  /\ pc' = "response"
  /\ \E r \in VendorResponses(variant) : response' = r
  /\ UNCHANGED <<variant, requests, outcome>>
  /\ UNCHANGED pageVars

\* an error status answered with the default result instead of a throw
ResponseNotOkDefaulted ==
  /\ pc = "response"
  /\ response.status = "http_error"
  /\ pc' = "resolved"
  /\ outcome' = Resolved(Sanitize(variant, DefaultAnalysis))
  /\ UNCHANGED <<variant, requests, response>>
  /\ UNCHANGED pageVars

\* !response.ok: log the error text and throw
ResponseNotOk ==
  /\ pc = "response"
  /\ response.status = "http_error"
  /\ pc' = "rejected"
  /\ outcome' = Rejected("API error")
  /\ UNCHANGED <<variant, requests, response>>
  /\ UNCHANGED pageVars

\* response.ok: read the envelope, parse and validate the answer
ResponseOk ==
  /\ pc = "response"
  /\ response.status = "ok"
  /\ outcome' = HandleBody(variant, response)
  /\ pc' = IF outcome'.kind = "result" THEN "resolved" ELSE "rejected"
  /\ UNCHANGED <<variant, requests, response>>
  /\ UNCHANGED pageVars

\* the caller has taken the settlement; the next call may start
Settled ==
  /\ pc \in {"resolved", "rejected"}
  /\ pc' = "idle"
  /\ requests' = 0
  /\ response' = NoResponse
  /\ outcome' = NoOutcome
  /\ UNCHANGED variant
  /\ UNCHANGED pageVars

Next ==
  \/ \E v \in Variants : analyzeEyebags(v)
  \/ FetchRejects
  \/ FetchResolves
  \/ ResponseNotOk
  \/ ResponseOk
  \/ Settled

Spec == Init /\ [][Next]_vars

TypeOK ==
  /\ pc \in {"idle", "fetch", "response", "resolved", "rejected"}
  /\ variant \in Variants
  /\ requests \in {0, 1}

(***************************************************************************)
(* The page: Index (src/unnamed/part_000) with its CameraInterface child.  *)
(* A handleCapture invocation suspended in analyzeEyebags is a record of   *)
(* calls; several may be suspended at once.                                *)
(***************************************************************************)
\* most handleCapture invocations suspended at once
MaxCalls == 2
\* longest API key typed, in characters
MaxKey == 1

\* the images the user can capture or upload, as data URIs
Images == {"img1", "img2"}

\* the keys the user can type: white space and other characters
ApiKeys == SeqsUpTo({Tok("ws"), Tok("x")}, MaxKey)

\* what the Gemini endpoint may answer to a capture of the page
PageResponses ==
  {[status |-> "http_error", missing |-> "none", text |-> <<>>],
   [status |-> "ok", missing |-> "candidates", text |-> <<>>],
   [status |-> "ok", missing |-> "none", text |-> <<Tok("null")>>],
   [status |-> "ok", missing |-> "none", text |-> <<Tok("x")>>],
   [status |-> "ok", missing |-> "none", text |-> ObjectText(WellFormed)]}

\* how analyzeEyebags of the GeminiAnalyzer settles once fetch has resolved
CallOutcome(resp) ==
  IF resp.status = "http_error"
  THEN Rejected("API error")
  ELSE HandleBody("gemini", resp)

\* which of the three returns of Index renders
View(st, an) ==
  IF st = "results" /\ an.present THEN "results"
  ELSE IF st = "camera" THEN "camera"
  ELSE "setup"

\* the state of CameraInterface is lost when it is not rendered
Remount(st, an) ==
  isActive' = IF View(st, an) = "camera" THEN isActive ELSE FALSE

\* onChange of the key input
setApiKey(k) ==
  /\ View(step, analysis) = "setup"
  /\ k # apiKey
  /\ apiKey' = k
  /\ UNCHANGED <<isAnalyzing, analysis, capturedImage, step, isActive, reads,
                 calls, toast>>
  /\ UNCHANGED analyzerVars

handleApiKeySubmit ==
  /\ View(step, analysis) = "setup"
  /\ IF Trim(apiKey) = <<>>
     THEN /\ toast' = "API Key Required"
          /\ UNCHANGED <<step, isActive>>
     ELSE /\ step' = "camera"
          /\ Remount(step', analysis)
          /\ UNCHANGED toast
  /\ UNCHANGED <<apiKey, isAnalyzing, analysis, capturedImage, reads, calls>>
  /\ UNCHANGED analyzerVars

\* onClick of the Back to Setup button
BackToSetup ==
  /\ View(step, analysis) = "camera"
  /\ step' = "setup"
  /\ Remount(step', analysis)
  /\ UNCHANGED <<apiKey, isAnalyzing, analysis, capturedImage, reads, calls,
                 toast>>
  /\ UNCHANGED analyzerVars

startCamera ==
  /\ View(step, analysis) = "camera"
  /\ ~isActive
  /\ isActive' = TRUE
  /\ UNCHANGED <<apiKey, isAnalyzing, analysis, capturedImage, step, reads,
                 calls, toast>>
  /\ UNCHANGED analyzerVars

stopCamera ==
  /\ View(step, analysis) = "camera"
  /\ isActive
  /\ isActive' = FALSE
  /\ UNCHANGED <<apiKey, isAnalyzing, analysis, capturedImage, step, reads,
                 calls, toast>>
  /\ UNCHANGED analyzerVars

\* handleCapture up to `await analyzer.analyzeEyebags(imageData)`, that is
\* up to the fetch of analyzeEyebags
handleCapture(imageData) ==
  /\ Cardinality(calls) < MaxCalls
  /\ isAnalyzing' = TRUE
  /\ capturedImage' = imageData
  /\ LET id == CHOOSE i \in 1..MaxCalls :
                 /\ \A c \in calls : c.id # i
                 /\ \A j \in 1..(i - 1) : \E c \in calls : c.id = j
     IN calls' = calls \cup
          {[id |-> id, image |-> imageData, pc |-> "fetch",
            response |-> NoResponse]}
  /\ UNCHANGED <<apiKey, analysis, step, isActive, toast>>

\* onClick of the Analyze Eyebags button, disabled while isAnalyzing
capturePhoto(imageData) ==
  /\ View(step, analysis) = "camera"
  /\ isActive
  /\ ~isAnalyzing
  /\ handleCapture(imageData)
  /\ UNCHANGED reads
  /\ UNCHANGED analyzerVars

\* the Upload Image button (shown while the camera is off, disabled while
\* isAnalyzing) and the choice of an image file: a FileReader starts
handleFileUpload(imageData) ==
  /\ View(step, analysis) = "camera"
  /\ ~isActive
  /\ ~isAnalyzing
  /\ imageData \notin reads
  /\ reads' = reads \cup {imageData}
  /\ UNCHANGED <<apiKey, isAnalyzing, analysis, capturedImage, step, isActive,
                 calls, toast>>
  /\ UNCHANGED analyzerVars

\* reader.onload: the file has been read and is handed to onCapture
ReaderOnLoad(imageData) ==
  /\ imageData \in reads
  /\ reads' = reads \ {imageData}
  /\ handleCapture(imageData)
  /\ UNCHANGED analyzerVars

\* fetch rejects: analyzeEyebags rethrows, handleCapture catches
HandleCaptureFetchRejects(c) ==
  /\ c \in calls
  /\ c.pc = "fetch"
  /\ calls' = calls \ {c}
  /\ toast' = "Analysis Failed"
  /\ isAnalyzing' = FALSE
  /\ UNCHANGED <<apiKey, analysis, capturedImage, step, isActive, reads>>
  /\ UNCHANGED analyzerVars

\* fetch resolves: analyzeEyebags goes on to read the body
HandleCaptureFetchResolves(c) ==
  /\ c \in calls
  /\ c.pc = "fetch"
  /\ \E r \in PageResponses :
       calls' = (calls \ {c}) \cup {[c EXCEPT !.pc = "response", !.response = r]}
  /\ UNCHANGED <<apiKey, isAnalyzing, analysis, capturedImage, step, isActive,
                 reads, toast>>
  /\ UNCHANGED analyzerVars

\* handleCapture clearing the flag at the end of the try block only
HandleCaptureSettlesNoFinally(c) ==
  /\ c \in calls
  /\ c.pc = "response"
  /\ calls' = calls \ {c}
  /\ LET result == CallOutcome(c.response) IN
     IF result.kind = "result"
     THEN /\ analysis' = [present |-> TRUE, of |-> c.image,
                          result |-> result.result]
          /\ step' = "results"
          /\ toast' = "Analysis Complete!"
          /\ isAnalyzing' = FALSE
     ELSE /\ toast' = "Analysis Failed"
          /\ UNCHANGED <<analysis, step, isAnalyzing>>
  /\ Remount(step', analysis')
  /\ UNCHANGED <<apiKey, capturedImage, reads>>
  /\ UNCHANGED analyzerVars

\* analyzeEyebags settles and handleCapture runs to its end: the rest of
\* the try block or the catch block, then the finally block
HandleCaptureSettles(c) ==
  /\ c \in calls
  /\ c.pc = "response"
  /\ calls' = calls \ {c}
  /\ LET result == CallOutcome(c.response) IN
     IF result.kind = "result"
     THEN /\ analysis' = [present |-> TRUE, of |-> c.image,
                          result |-> result.result]
          /\ step' = "results"
          /\ toast' = "Analysis Complete!"
     ELSE /\ toast' = "Analysis Failed"
          /\ UNCHANGED <<analysis, step>>
  /\ Remount(step', analysis')
  /\ isAnalyzing' = FALSE
  /\ UNCHANGED <<apiKey, capturedImage, reads>>
  /\ UNCHANGED analyzerVars

\* resetAnalysis that keeps the captured image
resetAnalysisKeepsImage ==
  /\ View(step, analysis) = "results"
  /\ step' = "camera"
  /\ analysis' = NoAnalysis
  /\ Remount(step', analysis')
  /\ UNCHANGED <<apiKey, isAnalyzing, capturedImage, reads, calls, toast>>
  /\ UNCHANGED analyzerVars

\* onClick of the New Analysis button
resetAnalysis ==
  /\ View(step, analysis) = "results"
  /\ step' = "camera"
  /\ analysis' = NoAnalysis
  /\ capturedImage' = ""
  /\ Remount(step', analysis')
  /\ UNCHANGED <<apiKey, isAnalyzing, reads, calls, toast>>
  /\ UNCHANGED analyzerVars

NextPage ==
  \/ \E k \in ApiKeys : setApiKey(k)
  \/ handleApiKeySubmit
  \/ BackToSetup
  \/ startCamera
  \/ stopCamera
  \/ \E img \in Images : capturePhoto(img)
  \/ \E img \in Images : handleFileUpload(img)
  \/ \E img \in Images : ReaderOnLoad(img)
  \/ \E c \in calls : HandleCaptureFetchRejects(c)
  \/ \E c \in calls : HandleCaptureFetchResolves(c)
  \/ \E c \in calls : HandleCaptureSettles(c)
  \/ resetAnalysis

SpecPage == Init /\ [][NextPage]_vars

PageTypeOK ==
  /\ apiKey \in ApiKeys
  /\ isAnalyzing \in BOOLEAN
  /\ capturedImage \in Images \cup {""}
  /\ step \in {"setup", "camera", "results"}
  /\ isActive \in BOOLEAN
  /\ reads \subseteq Images
  /\ Cardinality(calls) <= MaxCalls
  /\ toast \in {"none", "API Key Required", "Analysis Complete!",
                "Analysis Failed"}


(***************************************************************************)
(* Properties.                                                             *)
(***************************************************************************)
\* analyzeEyebags has returned a result for an answer text it received in a
\* well-formed envelope
ReturnedResult ==
  pc = "resolved" /\ response.status = "ok" /\ response.missing = "none"

\* the answer text is exactly one object, {members}
AnswerIsObject ==
  /\ Len(response.text) = 3
  /\ response.text[1].k = "{"
  /\ response.text[2].k = "body"
  /\ response.text[3].k = "}"

\* the object the answer text denotes, when AnswerIsObject
AnswerObject == response.text[2].b

NumericKeys == {"darkness", "puffiness", "overallScore"}

InRange(v) == v.t = "num" /\ v.n >= 0 /\ v.n <= 100

\* C1: every result analyzeEyebags returns is fully populated and
\* type-safe: the three scores are numbers within [0,100], severity is a
\* member of the variant's severity set, and recommendations holds at most
\* 6 elements, all of them strings.
C1_ResultTypeSafe ==
  ReturnedResult =>
    /\ \A k \in NumericKeys : InRange(outcome.result[k])
    /\ outcome.result.severity.t = "str"
    /\ outcome.result.severity.s \in SeveritySet(variant)
    /\ Len(outcome.result.recommendations) <= 6
    /\ \A i \in 1..Len(outcome.result.recommendations) :
         outcome.result.recommendations[i].t = "str"

\* C2: a score member holding a number n comes out as 0 when n < 0, as 100
\* when n > 100 and as n otherwise; a missing or falsy score member comes
\* out as 0.
C2_NumbersClamped ==
  (ReturnedResult /\ AnswerIsObject) =>
    \A k \in NumericKeys :
      LET v == AnswerObject[k]
          out == outcome.result[k]
      IN /\ (v.t = "num" /\ v.n < 0) => out = Num(0)
         /\ (v.t = "num" /\ v.n > 100) => out = Num(100)
         /\ (v.t = "num" /\ v.n >= 0 /\ v.n <= 100) => out = Num(v.n)
         /\ (v.t = "undef" \/ v.t = "null" \/ v = Bool(FALSE) \/ v = Str("")
               \/ v = Num(0)) => out = Num(0)

\* C2 witness: numbers below 0, above 100 (the 110 and -10 the 10-level
\* prompt permits among them) and in range have been clamped
C2_Witness ==
  /\ ReturnedResult /\ AnswerIsObject
  /\ variant = "openai10"
  /\ AnswerObject["overallScore"] = Num(110)
  /\ outcome.result.overallScore = Num(100)

\* C3: a severity that is not in the variant's enum comes out as
\* "moderate"; one that is in the enum comes out unchanged.
C3_SeverityValidated ==
  (ReturnedResult /\ AnswerIsObject) =>
    LET v == AnswerObject["severity"] IN
    IF v.t = "str"
       /\ v.s \in (IF variant = "openai10"
                   THEN {"none", "very_minimal", "minimal", "very_mild", "mild",
                         "moderate", "moderately_severe", "severe",
                         "very_severe", "extreme"}
                   ELSE {"minimal", "mild", "moderate", "severe"})
    THEN outcome.result.severity = v
    ELSE outcome.result.severity = Str("moderate")

\* C3 witness: the 4-level Gemini analyzer was given the 10-level value
\* "extreme" and returned "moderate"
C3_Witness ==
  /\ ReturnedResult /\ AnswerIsObject
  /\ variant = "gemini"
  /\ AnswerObject["severity"] = Str("extreme")
  /\ outcome.result.severity = Str("moderate")

\* C4: a recommendations array longer than 6 comes out as its first 6
\* elements in order; one of length 6 or less comes out unchanged.
C4_RecommendationsTruncated ==
  (ReturnedResult /\ AnswerIsObject /\ AnswerObject["recommendations"].t = "arr") =>
    LET a == AnswerObject["recommendations"].a
        out == outcome.result.recommendations
    IN IF Len(a) > 6
       THEN Len(out) = 6 /\ \A i \in 1..6 : out[i] = a[i]
       ELSE out = a

\* C4 witness: an array of more than 6 recommendations was truncated
C4_Witness ==
  /\ ReturnedResult /\ AnswerIsObject
  /\ AnswerObject["recommendations"].t = "arr"
  /\ Len(AnswerObject["recommendations"].a) > 6
  /\ Len(outcome.result.recommendations) = 6

\* C5: a recommendations member that is not an array (absent, null, string,
\* number, boolean, object) comes out as the single fallback string.
C5_RecommendationsFallback ==
  (ReturnedResult /\ AnswerIsObject /\ AnswerObject["recommendations"].t # "arr") =>
    outcome.result.recommendations =
      <<EStr("Consider consulting with a healthcare professional for personalized advice")>>

\* C5 witness: a string in recommendations was replaced by the fallback
C5_Witness ==
  /\ ReturnedResult /\ AnswerIsObject
  /\ AnswerObject["recommendations"].t = "str"
  /\ Len(outcome.result.recommendations) = 1

\* analyzeEyebags has settled for an answer text it received in a
\* well-formed envelope
SettledOnText ==
  /\ pc \in {"resolved", "rejected"}
  /\ response.status = "ok"
  /\ response.missing = "none"

\* the direct parse, the fence-stripped parse and the brace-block parse fail
NoParseableJson(text) ==
  /\ ~JSONParse(text).ok
  /\ ~JSONParse(Stripped(text)).ok
  /\ ~(HasBraceBlock(text) /\ JSONParse(BraceBlock(text)).ok)

FixedDefaultResult ==
  [darkness |-> Num(50),
   puffiness |-> Num(50),
   overallScore |-> Num(50),
   severity |-> Str("moderate"),
   confidenceScore |-> Undef,
   lightingQuality |-> Undef,
   observations |-> Undef,
   recommendations |->
     <<EStr("Get adequate sleep (7-9 hours per night)"),
       EStr("Stay hydrated by drinking plenty of water"),
       EStr("Use a cold compress to reduce puffiness")>>]

\* C6: for an answer text holding no parseable JSON at all (the empty text
\* included) analyzeEyebags returns, without throwing, the fixed default
\* result 50/50/50, "moderate" and the three fixed recommendations.
C6_UnparseableGivesDefault ==
  (SettledOnText /\ NoParseableJson(response.text)) =>
    outcome = Resolved(FixedDefaultResult)

\* C6 witness: a text with a brace block that is not JSON was answered
\* with the default result
C6_Witness ==
  /\ SettledOnText
  /\ NoParseableJson(response.text)
  /\ HasBraceBlock(response.text)
  /\ pc = "resolved"
  /\ outcome.result.overallScore = Num(50)

\* C7: after a success status and a well-formed envelope analyzeEyebags
\* never rejects, whatever the answer text is.
C7_ContentNeverRejects ==
  (response.status = "ok" /\ response.missing = "none") => pc # "rejected"

\* C8: an answer text that is valid JSON J wrapped in a code fence, tagged
\* or not, has the same outcome as J itself.
C8_FenceTransparent ==
  SettledOnText =>
    \A tagged \in BOOLEAN, n \in {2, 3} :
      LET J == SubSeq(response.text, n + 1, Len(response.text) - 2) IN
      (response.text = FenceWrap(tagged, J) /\ JSONParse(J).ok) =>
        outcome = NormalizeText(variant, J)

\* the text is prose, the object text[i..j], prose
EmbedsObjectAt(text, i, j) ==
  /\ i < j
  /\ text[i].k = "{"
  /\ text[j].k = "}"
  /\ JSONParse(SubSeq(text, i, j)).ok

\* the places at which the text embeds an object
ObjectsIn(text) ==
  {ij \in (1..Len(text)) \X (1..Len(text)) : EmbedsObjectAt(text, ij[1], ij[2])}

HasBrace(text) == \E i \in 1..Len(text) : text[i].k \in {"{", "}"}

C10_TransportFailureRejects ==
  /\ response.status = "network_error" =>
       pc = "rejected" /\ outcome.kind = "error" /\ requests = 1
  /\ response.status = "http_error" =>
       /\ pc \in {"response", "rejected"}
       /\ pc = "response" => outcome.kind = "none"
       /\ pc = "rejected" => outcome.kind = "error"
       /\ requests = 1

\* C10 witness: a call was rejected for a non-success HTTP status
C10_Witness ==
  /\ pc = "rejected"
  /\ response.status = "http_error"
  /\ outcome.error = "API error"

\* C11: after a success status whose envelope lacks a nested field on the
\* way to the answer text, analyzeEyebags rejects and returns no result.
C11_MissingFieldRejects ==
  (response.status = "ok" /\ response.missing # "none" /\ pc # "response") =>
    pc = "rejected" /\ outcome.kind = "error"

(***************************************************************************)
(* Properties of the page, checked under SpecPage.                         *)
(***************************************************************************)
\* C12: at most one analysis request is outstanding in every reachable
\* state of the page.
C12_OneRequestInFlight == Cardinality(calls) <= 1

\* the call leaves handleCapture in this step
Finishes(c) == c \in calls /\ c \notin calls' /\ \A d \in calls' : d.id # c.id

\* analyzeEyebags rejects for the call: fetch fails, or the response makes
\* it throw
RejectsFor(c) == c.pc = "fetch" \/ CallOutcome(c.response).kind = "error"

\* C13: when analyzeEyebags rejects inside handleCapture the page shows
\* 'Analysis Failed', leaves step and analysis unchanged, clears
\* isAnalyzing, and is on the camera step with capture enabled.
C13_RejectionBackOnCamera ==
  [][\A c \in calls :
       (Finishes(c) /\ RejectsFor(c)) =>
         /\ toast' = "Analysis Failed"
         /\ step' = step
         /\ analysis' = analysis
         /\ isAnalyzing' = FALSE
         /\ View(step', analysis') = "camera"]_vars

\* C14: whenever the results view is displayed, capturedImage is the image
\* whose request produced the analysis held.
C14_ImageMatchesAnalysis ==
  View(step, analysis) = "results" => capturedImage = analysis.of

\* C16: step leaves "setup" for "camera" only with a non-blank key and a
\* blank key never leads to "camera"; step becomes "results" only from
\* "camera" and only as a successful analysis finishes; step leaves
\* "results" only for "camera", by resetAnalysis.
C16_StepOrder ==
  [][/\ (step = "setup" /\ step' = "camera") => Trim(apiKey) # <<>>
     /\ (step # "results" /\ step' = "results") =>
          /\ step = "camera"
          /\ \E c \in calls :
               Finishes(c) /\ c.pc = "response"
                 /\ CallOutcome(c.response).kind = "result"
     /\ (step = "results" /\ step' # "results") =>
          step' = "camera" /\ analysis' = NoAnalysis]_vars

\* a handleCapture invocation starts in this step
Starts == \E c \in calls' : \A d \in calls : d.id # c.id

\* C18: a starting handleCapture sets isAnalyzing, every handleCapture that
\* finishes, on whatever path, clears it, and the flag is never set while
\* no request is outstanding.
C18_BusyFlagReleased ==
  /\ [](isAnalyzing => calls # {})
  /\ [][Starts => isAnalyzing']_vars
  /\ [][(\E c \in calls : Finishes(c)) => ~isAnalyzing']_vars

\* C18 witness: a call that threw during the validation (answer text null)
\* has finished and the flag is clear
C18_Witness ==
  /\ ~isAnalyzing
  /\ calls = {}
  /\ toast = "Analysis Failed"
  /\ capturedImage # ""
  /\ step = "camera"

\* C20: step = "results" implies an analysis is held, and resetAnalysis
\* leaves step = "camera", no analysis and no captured image, with apiKey
\* and isAnalyzing unchanged.
C20_ResultsHaveAnalysis ==
  /\ [](step = "results" => analysis.present)
  /\ [][(step = "results" /\ step' = "camera") =>
          /\ analysis' = NoAnalysis
          /\ capturedImage' = ""
          /\ apiKey' = apiKey
          /\ isAnalyzing' = isAnalyzing]_vars

\* C20 witness: resetAnalysis has run after a displayed result, while a
\* later capture was still being analyzed
C20_Witness ==
  /\ step = "camera"
  /\ toast = "Analysis Complete!"
  /\ ~analysis.present
  /\ capturedImage = ""
  /\ isAnalyzing

(***************************************************************************)
(* Further properties of analyzeEyebags, checked under Spec.               *)
(***************************************************************************)
AllStrings(a) == \A i \in 1..Len(a) : a[i].t = "str"

\* C15: the 10-level analyzer emits confidenceScore only for a number
\* (0 included), clamped to [0,100], lightingQuality only for "poor",
\* "fair" or "good", observations only for an array of strings, and omits
\* each of them otherwise; the 4-level analyzers emit none of them.
C15_OptionalFieldsWellTyped ==
  (ReturnedResult /\ AnswerIsObject) =>
    LET cs == AnswerObject["confidenceScore"]
        lq == AnswerObject["lightingQuality"]
        ob == AnswerObject["observations"]
        out == outcome.result
    IN IF variant = "openai10"
       THEN /\ out.confidenceScore =
                 IF cs.t = "num"
                 THEN Num(IF cs.n < 0 THEN 0 ELSE IF cs.n > 100 THEN 100 ELSE cs.n)
                 ELSE Undef
            /\ out.lightingQuality =
                 IF lq.t = "str" /\ lq.s \in {"poor", "fair", "good"}
                 THEN lq ELSE Undef
            /\ out.observations =
                 IF ob.t = "arr" /\ AllStrings(ob.a) THEN ob ELSE Undef
       ELSE /\ out.confidenceScore = Undef
            /\ out.lightingQuality = Undef
            /\ out.observations = Undef

\* the severity member of the value the validation starts from
InputSeverity(text) == Get(ParseAnalysis(text), "severity")

ZeroResult ==
  [darkness |-> Num(0),
   puffiness |-> Num(0),
   overallScore |-> Num(0),
   severity |-> Str("moderate"),
   confidenceScore |-> Undef,
   lightingQuality |-> Undef,
   observations |-> Undef,
   recommendations |->
     <<EStr("Consider consulting with a healthcare professional for personalized advice")>>]

\* C19: an answer text that parses directly to a number, string, boolean
\* or array is answered with 0/0/0, "moderate" and the single fallback
\* recommendation; the same value in a code fence is answered with that
\* result when it is truthy and with the fixed default when it is falsy
\* (0, false, "", null).
C19_NonObjectValues ==
  SettledOnText =>
    /\ LET direct == JSONParse(response.text) IN
       (direct.ok /\ direct.v.t \in {"num", "str", "bool", "arr"}) =>
         outcome = Resolved(ZeroResult)
    /\ \A tagged \in BOOLEAN, n \in {2, 3} :
         LET J == SubSeq(response.text, n + 1, Len(response.text) - 2)
             inner == JSONParse(J)
         IN (response.text = FenceWrap(tagged, J) /\ inner.ok
               /\ inner.v.t # "obj") =>
              outcome =
                IF inner.v.t = "arr" \/ inner.v = VNum(7) \/ inner.v = VStr("s")
                   \/ inner.v = VBool(TRUE)
                THEN Resolved(ZeroResult)
                ELSE Resolved(FixedDefaultResult)

\* C19 witness: a fenced 0 was answered with the fixed default
C19_Witness ==
  /\ pc = "resolved"
  /\ response.text = FenceWrap(TRUE, <<Tok("0")>>)
  /\ outcome.result.overallScore = Num(50)

====
